---- MODULE Spec2Model ----
(***************************************************************************)
(* Model of src/src/ai/flows/sign-to-vox-flow.ts: generateSignToVoxFlow,   *)
(* the server action that synthesises the voxel model of a sign (a framed  *)
(* wall sign or a hanging sign with a backplate), paints an icon and/or    *)
(* rasterized text onto it, writes the anchor voxel and encodes the grid   *)
(* into a .vox container.                                                  *)
(*                                                                         *)
(* One invocation runs through the phases                                  *)
(*   idle -> shape -> layout -> (await ->) place -> anchor -> encode       *)
(*        -> done | threw                                                  *)
(* and each phase is one action holding all of the statements of that      *)
(* part of the function.  All numbers of the model are integers; the       *)
(* schema also admits non-integer hangingWidth / vertical offsets, which   *)
(* the model does not draw.                                                *)
(***************************************************************************)
EXTENDS Integers, Sequences, FiniteSets, TLC

VARIABLES
    pending,       \* the caller's requests not yet issued: Seq(SignToVoxInput)
    pc,            \* position of the current invocation
    params,        \* <<>> or <<the parsed input>>                 (line 64)
    voxelMap,      \* the Map<string, number>: [keys: insertion order, val] (line 70)
    writeLog,      \* history: every addVoxel call of this invocation, in order
    contentItems,  \* the contentItems array                       (line 131)
    awaits,        \* number of times this invocation has suspended (line 140)
    rasterReq,     \* <<>> or <<the argument of rasterizePixelText>>
    rasterRes,     \* <<>> or <<what rasterizePixelText gave: a result or "failed">>
    thrown,        \* "none", "ValidationError" or "RuntimeError"
    output,        \* <<>> or <<the SignToVoxOutput the promise resolved with>>
    history        \* completed invocations: Seq([input, raster, output])

vars == <<pending, pc, params, voxelMap, writeLog, contentItems, awaits,
          rasterReq, rasterRes, thrown, output, history>>

(***************************************************************************)
(* Bounds of the model.                                                    *)
(***************************************************************************)
MaxFrameWidth == 2      \* frameWidth is drawn from 1..MaxFrameWidth (and one degenerate value)
MaxThickness == 2       \* hangingSignThickness is drawn from 1..MaxThickness
MaxCalls == 3           \* invocations in a row, in the repeated-call specification
MaxWrites == 3          \* addVoxel calls in a row, in the addVoxel specification

(***************************************************************************)
(* Program constants.                                                      *)
(***************************************************************************)
MinWidth == 16               \* z.number().int().min(16)
MinHeight == 16              \* z.number().int().min(16)
MinFrameWidth == 1           \* z.number().int().min(1)
MinThickness == 1            \* z.number().int().min(1)
hangingHeight == 16          \* signHeight of a hanging sign
modelDepth == 32
hangingCornerRadius == 4
zStart == 16
hangingPad == 2
spacing == 4
voxelDepth == 15
anchorIndex == 2
frameIndex == 2
backplateIndex == 1
defaultColorIndex == 1       \* addVoxel's colorIndex = 1
paletteLength == 256

(***************************************************************************)
(* Small helpers of the model.                                             *)
(***************************************************************************)
Abs(n) == IF n < 0 THEN -n ELSE n

Sq(n) == n * n

Floor2(n) == n \div 2        \* Math.floor(n / 2): \div rounds towards minus infinity

\* x|0 (ToInt32).  Every number of the model is an integer far inside the
\* 32-bit range, where ToInt32 leaves the value as it is.
ToInt32(n) == n

\* A value stored into a Uint8Array element.
ToUint8(n) == n % 256

\* A pixel bitmap of w x h cells, row-major as in PixelDataSchema.
\* "full": every cell set; "checker": cells with x+y even; "clear": none.
PixelOf(pat, x, y) ==
    CASE pat = "full" -> TRUE
      [] pat = "checker" -> (x + y) % 2 = 0
      [] OTHER -> FALSE

Bitmap(w, h, pat) ==
    [width |-> w, height |-> h,
     pixels |-> [i \in 1..(w * h) |-> PixelOf(pat, (i - 1) % w, (i - 1) \div w)]]

\* pixels[i] of a JavaScript array, i counted from 0: undefined (falsy)
\* outside the array.
PixelAt(pixels, i) == i >= 0 /\ i < Len(pixels) /\ pixels[i + 1]

(***************************************************************************)
(* Strings: text is a sequence of characters.                              *)
(***************************************************************************)
IsSpace(c) == c = " "

RECURSIVE TrimStart(_)
TrimStart(s) ==
    IF Len(s) > 0 /\ IsSpace(Head(s)) THEN TrimStart(Tail(s)) ELSE s

RECURSIVE TrimEnd(_)
TrimEnd(s) ==
    IF Len(s) > 0 /\ IsSpace(s[Len(s)]) THEN TrimEnd(SubSeq(s, 1, Len(s) - 1)) ELSE s

Trim(s) == TrimEnd(TrimStart(s))

UpperChar(c) ==
    CASE c = "h" -> "H"
      [] c = "i" -> "I"
      [] OTHER -> c

ToUpperCase(s) == [i \in 1..Len(s) |-> UpperChar(s[i])]

\* params.text && params.text.trim().length > 0
TextIsNonBlank(p) == Len(p.text) > 0 /\ Len(Trim(p.text)) > 0

(***************************************************************************)
(* Input validation: SignToVoxInputSchema.parse.  Both dimension groups    *)
(* are validated whatever the signType.                                    *)
(***************************************************************************)
SchemaAccepts(input) ==
    /\ input.signType \in {"standard", "hanging"}
    /\ input.width >= MinWidth
    /\ input.height >= MinHeight
    /\ input.frameWidth >= MinFrameWidth
    /\ input.hangingIconPosition \in {"left", "right"}
    /\ input.hangingSignThickness >= MinThickness

(***************************************************************************)
(* Derived dimensions.                                                     *)
(***************************************************************************)
SignWidth(p) == IF p.signType = "hanging" THEN p.hangingWidth ELSE p.width

SignHeight(p) == IF p.signType = "hanging" THEN hangingHeight ELSE p.height

(***************************************************************************)
(* The voxel grid.  A Map keeps its keys in the order of their first       *)
(* insertion; set() on a key already present replaces the value in place.  *)
(* The key `${px|0},${py|0},${pz|0}` is the triple of the three ToInt32    *)
(* values; key.split(',').map(Number) reads the same triple back.          *)
(* The association key -> value is held as val[z][y][x].                   *)
(***************************************************************************)
EmptyMap == [keys |-> <<>>, val |-> <<>>]

KeyOf(px, py, pz) == <<ToInt32(px), ToInt32(py), ToInt32(pz)>>

MapHas(m, k) ==
    /\ k[3] \in DOMAIN m.val
    /\ k[2] \in DOMAIN m.val[k[3]]
    /\ k[1] \in DOMAIN m.val[k[3]][k[2]]

MapGet(m, k) == m.val[k[3]][k[2]][k[1]]

\* f with f[a] = b, whether or not a was in its domain.
Assoc(f, a, b) == IF a \in DOMAIN f THEN [f EXCEPT ![a] = b] ELSE (a :> b) @@ f

Sub(f, a) == IF a \in DOMAIN f THEN f[a] ELSE <<>>

\* Map.prototype.set
MapSet(m, k, v) ==
    [keys |-> IF MapHas(m, k) THEN m.keys ELSE Append(m.keys, k),
     val |-> Assoc(m.val, k[3],
                   Assoc(Sub(m.val, k[3]), k[2],
                         Assoc(Sub(Sub(m.val, k[3]), k[2]), k[1], v)))]

\* A grid that keeps the first value written to a coordinate.
addVoxelKeepFirst(m, px, py, pz, colorIndex) ==
    IF MapHas(m, KeyOf(px, py, pz)) THEN m ELSE MapSet(m, KeyOf(px, py, pz), colorIndex)

\* A grid that records every write as a new entry.
addVoxelAppend(m, px, py, pz, colorIndex) ==
    [keys |-> Append(m.keys, KeyOf(px, py, pz)),
     val |-> MapSet(m, KeyOf(px, py, pz), colorIndex).val]

addVoxel(m, px, py, pz, colorIndex) == MapSet(m, KeyOf(px, py, pz), colorIndex)

\* voxelMap.entries(): the entries in insertion order.
MapEntries(m) == [i \in 1..Len(m.keys) |-> [key |-> m.keys[i], value |-> MapGet(m, m.keys[i])]]

MapSize(m) == Len(m.keys)

\* The grid together with the log of the writes made to it.
\* g = [m |-> grid, log |-> writes]; tag = [phase, awaits, outstanding]:
\* the part of the function that writes, how often the invocation has
\* suspended so far, whether a call of the rasterizer is outstanding.
Write(g, px, py, pz, colorIndex, tag) ==
    [m |-> addVoxel(g.m, px, py, pz, colorIndex),
     log |-> Append(g.log, [key |-> KeyOf(px, py, pz), value |-> colorIndex,
                            phase |-> tag.phase, awaits |-> tag.awaits,
                            outstanding |-> tag.outstanding])]

\* TRUE; evaluating it computes g, so that a loop carries a value and not
\* a chain of pending updates.
Computed(g) == Len(g.log) >= 0

(***************************************************************************)
(* Shape rasterizer: the frame of a standard sign (lines 78-96).           *)
(***************************************************************************)
\* checkCorner: inside the square around (cx, cy) and farther than radius
\* from the cell centre shifted by 0.5.  All terms doubled to stay integral:
\* (x-cx+0.5)**2 + (y-cy+0.5)**2 > radius**2.
checkCorner(x, y, cx, cy, radius) ==
    /\ Abs(x - cx) < radius
    /\ Abs(y - cy) < radius
    /\ Sq(2 * (x - cx) + 1) + Sq(2 * (y - cy) + 1) > 4 * Sq(radius)

FrameCornerRadius(p) == p.frameWidth * 2

\* The four (cx, cy) handed to checkCorner, in the order of lines 89-92.
CornerCentres(p) ==
    LET r == FrameCornerRadius(p)
        w == SignWidth(p)
        h == SignHeight(p)
    IN  << <<r, r>>, <<w - 1 - r, r>>, <<r, h - 1 - r>>, <<w - 1 - r, h - 1 - r>> >>

InCornerCutout(p, x, y, n) ==
    checkCorner(x, y, CornerCentres(p)[n][1], CornerCentres(p)[n][2], FrameCornerRadius(p))

OnEdgeRows(p, y) == y < p.frameWidth \/ y >= SignHeight(p) - p.frameWidth

OnEdgeCols(p, x) == x < p.frameWidth \/ x >= SignWidth(p) - p.frameWidth

\* The edge tests made after the corner tests: a carved cell is marked again.
isFrameEdgesLast(p, x, y) ==
    LET f0 == FALSE
        f1 == IF InCornerCutout(p, x, y, 1) THEN FALSE ELSE f0
        f2 == IF InCornerCutout(p, x, y, 2) THEN FALSE ELSE f1
        f3 == IF InCornerCutout(p, x, y, 3) THEN FALSE ELSE f2
        f4 == IF InCornerCutout(p, x, y, 4) THEN FALSE ELSE f3
        f5 == IF OnEdgeRows(p, y) THEN TRUE ELSE f4
        f6 == IF OnEdgeCols(p, x) THEN TRUE ELSE f5
    IN  f6

\* The value of isFrame at line 94, after the assignments of lines 82-92.
isFrame(p, x, y) ==
    LET f0 == FALSE
        f1 == IF OnEdgeRows(p, y) THEN TRUE ELSE f0
        f2 == IF OnEdgeCols(p, x) THEN TRUE ELSE f1
        f3 == IF InCornerCutout(p, x, y, 1) THEN FALSE ELSE f2
        f4 == IF InCornerCutout(p, x, y, 2) THEN FALSE ELSE f3
        f5 == IF InCornerCutout(p, x, y, 3) THEN FALSE ELSE f4
        f6 == IF InCornerCutout(p, x, y, 4) THEN FALSE ELSE f5
    IN  f6

\* for (let x = 0; x < signWidth; x++) of one row y.
RECURSIVE FrameRow(_, _, _, _, _)
FrameRow(g, p, y, x, tag) ==
    IF ~Computed(g) \/ x >= SignWidth(p) THEN g
    ELSE FrameRow(IF isFrame(p, x, y) THEN Write(g, x, y, voxelDepth, frameIndex, tag) ELSE g,
                  p, y, x + 1, tag)

\* for (let y = 0; y < signHeight; y++).
RECURSIVE FrameRows(_, _, _, _)
FrameRows(g, p, y, tag) ==
    IF ~Computed(g) \/ y >= SignHeight(p) THEN g
    ELSE FrameRows(FrameRow(g, p, y, 0, tag), p, y + 1, tag)

(***************************************************************************)
(* Shape rasterizer: the backplate of a hanging sign (lines 97-122).       *)
(***************************************************************************)
\* Math.pow(a + 0.5 - c, 2) + Math.pow(b + 0.5 - d, 2) <= Math.pow(r, 2),
\* all terms doubled.
InCircle(a, b, c, d, r) == Sq(2 * a + 1 - 2 * c) + Sq(2 * b + 1 - 2 * d) <= 4 * Sq(r)

\* The circle test made on the cell's corner (x, y), without the 0.5.
isInsideCellCorner(p, x, y) ==
    LET r == hangingCornerRadius
        w == SignWidth(p)
        h == SignHeight(p)
    IN  \/ (x >= r /\ x < w - r)
        \/ (y >= r /\ y < h - r)
        \/ Sq(x - r) + Sq(y - r) <= Sq(r)
        \/ Sq(x - (w - r)) + Sq(y - r) <= Sq(r)
        \/ Sq(x - r) + Sq(y - (h - r)) <= Sq(r)
        \/ Sq(x - (w - r)) + Sq(y - (h - r)) <= Sq(r)

isInside(p, x, y) ==
    LET r == hangingCornerRadius
        w == SignWidth(p)
        h == SignHeight(p)
    IN  \/ (x >= r /\ x < w - r)
        \/ (y >= r /\ y < h - r)
        \/ InCircle(x, y, r, r, r)
        \/ InCircle(x, y, w - r, r, r)
        \/ InCircle(x, y, r, h - r, r)
        \/ InCircle(x, y, w - r, h - r, r)

RECURSIVE BackplateRow(_, _, _, _, _, _)
BackplateRow(g, p, z, y, x, tag) ==
    IF ~Computed(g) \/ x >= SignWidth(p) THEN g
    ELSE BackplateRow(IF isInside(p, x, y)
                          THEN Write(g, x, y, zStart + z, backplateIndex, tag)
                          ELSE g,
                      p, z, y, x + 1, tag)

RECURSIVE BackplateRows(_, _, _, _, _)
BackplateRows(g, p, z, y, tag) ==
    IF ~Computed(g) \/ y >= SignHeight(p) THEN g
    ELSE BackplateRows(BackplateRow(g, p, z, y, 0, tag), p, z, y + 1, tag)

RECURSIVE BackplateSlices(_, _, _, _)
BackplateSlices(g, p, z, tag) ==
    IF ~Computed(g) \/ z >= p.hangingSignThickness THEN g
    ELSE BackplateSlices(BackplateRows(g, p, z, 0, tag), p, z + 1, tag)

\* Lines 78-122: the background of the sign.
ShapeWrites(g, p, tag) ==
    IF p.signType = "standard" /\ p.frame THEN FrameRows(g, p, 0, tag)
    ELSE IF p.signType = "hanging" THEN BackplateSlices(g, p, 0, tag)
    ELSE g

(***************************************************************************)
(* Content layout (lines 124-137).                                         *)
(***************************************************************************)
\* params.icon && params.icon.pixels.length > 0 && params.signWithIcon
hasIcon(p) == Len(p.icon) > 0 /\ Len(p.icon[1].pixels) > 0 /\ p.signWithIcon

pad(p) ==
    IF p.signType = "standard" /\ p.frame THEN p.frameWidth
    ELSE IF p.signType = "hanging" THEN hangingPad
    ELSE 0

availableWidth(p) == SignWidth(p) - pad(p) * 2

availableHeight(p) == SignHeight(p) - pad(p) * 2

IconItem(p) ==
    [type |-> "icon",
     width |-> p.icon[1].width, height |-> p.icon[1].height, pixels |-> p.icon[1].pixels,
     offsetX |-> IF p.signType = "hanging" THEN p.hangingSignIconOffsetX ELSE 0,
     offsetY |-> IF p.signType = "standard" THEN p.signIconOffsetY ELSE 0]

\* contentItems after lines 133-137.
IconItems(p) == IF hasIcon(p) THEN <<IconItem(p)>> ELSE <<>>

(***************************************************************************)
(* The external text rasterizer, rasterizePixelText (@/lib/schematic-utils,*)
(* not among the sources): a black box giving {lines, totalHeight}, each   *)
(* line {width, height, pixels}, lines bounded to maxWidth, totalHeight    *)
(* the line heights plus one row between lines.  When no line can fit      *)
(* (maxWidth < 1) it gives no line, or one column it could not narrow.     *)
(***************************************************************************)
RECURSIVE LineTop(_, _)
LineTop(lines, n) ==
    IF n <= 1 THEN 0 ELSE LineTop(lines, n - 1) + lines[n - 1].height + 1

StackedHeight(lines) ==
    IF Len(lines) = 0 THEN 0 ELSE LineTop(lines, Len(lines)) + lines[Len(lines)].height

RasterResult(lines) == [ok |-> TRUE, lines |-> lines, totalHeight |-> StackedHeight(lines)]

RasterFailure == [ok |-> FALSE, lines |-> <<>>, totalHeight |-> 0]

LineWidths(maxWidth) == {w \in {2, maxWidth - 6, maxWidth} : w >= 1 /\ w <= maxWidth}

RasterResults(req) ==
    IF req.maxWidth < 1
        THEN {RasterResult(<<>>), RasterResult(<<Bitmap(1, 2, "full")>>)}
        ELSE {RasterResult(<<Bitmap(w, 2, "full")>>) : w \in LineWidths(req.maxWidth)}
             \cup {RasterResult(<<Bitmap(req.maxWidth, 1, "checker"), Bitmap(2, 2, "full")>>)}

(***************************************************************************)
(* The text item (lines 141-156).                                          *)
(***************************************************************************)
\* Array(availableWidth * totalHeight) throws a RangeError on a negative length.
ArrayLengthInvalid(p, res) == availableWidth(p) * res.totalHeight < 0

\* const xOffset = Math.floor((availableWidth - line.width) / 2)
xOffset(p, line) == Floor2(availableWidth(p) - line.width)

\* The indices of combinedPixels set to true by the loops of lines 143-153.
CombinedTrue(p, res) ==
    UNION {
        {(LineTop(res.lines, n) + y) * availableWidth(p) + (xOffset(p, res.lines[n]) + x) :
            <<x, y>> \in {c \in (0..(res.lines[n].width - 1)) \X (0..(res.lines[n].height - 1)) :
                            PixelAt(res.lines[n].pixels, c[2] * res.lines[n].width + c[1])}}
        : n \in 1..Len(res.lines)}

\* Whether index idx of combinedPixels is one of them.
SetByLoops(p, res, idx) ==
    \E n \in 1..Len(res.lines) : \E y \in 0..(res.lines[n].height - 1) :
        LET x == idx - (LineTop(res.lines, n) + y) * availableWidth(p) - xOffset(p, res.lines[n])
        IN  /\ x >= 0
            /\ x < res.lines[n].width
            /\ PixelAt(res.lines[n].pixels, y * res.lines[n].width + x)

\* combinedPixels: filled with false, then the indices above set; an
\* assignment past the end lengthens the array, one at a negative index
\* leaves its elements alone.
combinedPixels(p, res) ==
    LET n == availableWidth(p) * res.totalHeight
        t == CombinedTrue(p, res)
        top == IF t = {} THEN -1 ELSE CHOOSE i \in t : \A j \in t : j <= i
        len == IF top + 1 > n THEN top + 1 ELSE n
    IN  [i \in 1..len |-> SetByLoops(p, res, i - 1)]

TextItem(p, res) ==
    [type |-> "text",
     width |-> availableWidth(p), height |-> res.totalHeight,
     pixels |-> combinedPixels(p, res),
     offsetX |-> IF p.signType = "hanging" THEN p.hangingSignTextOffsetX ELSE 0,
     offsetY |-> IF p.signType = "standard" THEN p.textOffsetY ELSE 0]

(***************************************************************************)
(* Placement (lines 159-200).                                              *)
(***************************************************************************)
Reverse(s) == [i \in 1..Len(s) |-> s[Len(s) + 1 - i]]

\* contentItems after line 161.
OrderedItems(p, items) ==
    IF p.signType = "hanging" /\ p.hangingIconPosition = "right" THEN Reverse(items) ELSE items

\* itemWidth of lines 168-170 and 196-198.
itemWidth(p, item) ==
    IF item.type = "text"
        THEN (IF hasIcon(p) /\ p.signType = "hanging"
                THEN item.width - p.icon[1].width - spacing
                ELSE item.width)
        ELSE item.width

RECURSIVE SumItemWidths(_, _, _)
SumItemWidths(p, items, n) ==
    IF n = 0 THEN 0 ELSE SumItemWidths(p, items, n - 1) + itemWidth(p, items[n])

totalContentWidth(p, items) ==
    SumItemWidths(p, items, Len(items)) + (IF Len(items) > 1 THEN spacing ELSE 0)

\* let currentX = pad + Math.floor((availableWidth - totalContentWidth) / 2)
StartX(p, items) == pad(p) + Floor2(availableWidth(p) - totalContentWidth(p, items))

\* currentX when item n is painted.
RECURSIVE currentX(_, _, _)
currentX(p, items, n) ==
    IF n <= 1 THEN StartX(p, items)
    ELSE currentX(p, items, n - 1) + itemWidth(p, items[n - 1]) + spacing

finalItemX(p, items, n) == currentX(p, items, n) + items[n].offsetX

finalItemY(p, item) == pad(p) + Floor2(availableHeight(p) - item.height) + item.offsetY

contentColorIndex(p) == IF p.signType = "standard" THEN 2 ELSE 3

\* The voxel of pixel (x, y) of item n (line 192).
PixelVoxel(p, items, n, x, y) ==
    <<x + finalItemX(p, items, n),
      SignHeight(p) - 1 - (y + finalItemY(p, items[n])),
      voxelDepth>>

RECURSIVE PaintRow(_, _, _, _, _, _, _)
PaintRow(g, p, items, n, y, x, tag) ==
    IF ~Computed(g) \/ x >= items[n].width THEN g
    ELSE PaintRow(IF PixelAt(items[n].pixels, y * items[n].width + x)
                      THEN Write(g, PixelVoxel(p, items, n, x, y)[1],
                                 PixelVoxel(p, items, n, x, y)[2],
                                 PixelVoxel(p, items, n, x, y)[3], contentColorIndex(p), tag)
                      ELSE g,
                  p, items, n, y, x + 1, tag)

RECURSIVE PaintRows(_, _, _, _, _, _)
PaintRows(g, p, items, n, y, tag) ==
    IF ~Computed(g) \/ y >= items[n].height THEN g
    ELSE PaintRows(PaintRow(g, p, items, n, y, 0, tag), p, items, n, y + 1, tag)

\* for (const item of contentItems)
RECURSIVE PaintItems(_, _, _, _, _)
PaintItems(g, p, items, n, tag) ==
    IF ~Computed(g) \/ n > Len(items) THEN g
    ELSE PaintItems(PaintRows(g, p, items, n, 0, [tag EXCEPT !.phase = items[n].type]),
                    p, items, n + 1, tag)

ContentWrites(g, p, items, tag) == PaintItems(g, p, OrderedItems(p, items), 1, tag)

(***************************************************************************)
(* Palette and encoder (lines 205-232).                                    *)
(***************************************************************************)
Transparent == [r |-> 0, g |-> 0, b |-> 0, a |-> 0]

\* The palette array, indexed from 0 as in the source.
palette ==
    [i \in 0..(paletteLength - 1) |->
        CASE i = 1 -> [r |-> 10, g |-> 10, b |-> 10, a |-> 255]
          [] i = 2 -> [r |-> 200, g |-> 164, b |-> 100, a |-> 255]
          [] i = 3 -> [r |-> 220, g |-> 220, b |-> 220, a |-> 255]
          [] OTHER -> Transparent]

\* xyziValues: one {x, y, z, i} per entry of the map, in its order.
xyziValues(m) ==
    LET e == MapEntries(m)
    IN  [n \in 1..Len(e) |->
            [x |-> e[n].key[1], y |-> e[n].key[2], z |-> e[n].key[3], i |-> e[n].value]]

voxSize(p) == [x |-> SignWidth(p), y |-> modelDepth, z |-> SignHeight(p)]

\* voxObject (lines 222-229): y and z of every value exchanged.
voxObject(p, m) ==
    LET v == xyziValues(m)
    IN  [size |-> voxSize(p),
         xyzi |-> [numVoxels |-> Len(v),
                   values |-> [n \in 1..Len(v) |->
                                  [x |-> v[n].x, y |-> v[n].z, z |-> v[n].y, i |-> v[n].i]]],
         rgba |-> [values |-> palette]]

\* writeVox of the vox-saver package, as the container is laid out: SIZE
\* (three 32-bit integers), XYZI (a 32-bit count, then 4-byte records of
\* 8-bit components), RGBA (the 256 entries handed over, in their order,
\* 8-bit components).  The payload is this byte content seen chunk by
\* chunk; its base64 text (line 232) is one-to-one with it.
writeVox(vo) ==
    LET v == vo.xyzi.values
        c == vo.rgba.values
    IN  [format |-> "VOX ",
         SIZE |-> <<vo.size.x, vo.size.y, vo.size.z>>,
         XYZI |-> [numVoxels |-> vo.xyzi.numVoxels,
                   records |-> [n \in 1..Len(v) |->
                                   <<ToUint8(v[n].x), ToUint8(v[n].y),
                                     ToUint8(v[n].z), ToUint8(v[n].i)>>]],
         RGBA |-> [n \in 1..paletteLength |->
                      <<ToUint8(c[n - 1].r), ToUint8(c[n - 1].g),
                        ToUint8(c[n - 1].b), ToUint8(c[n - 1].a)>>]]

\* Reading the container back.  RGBA entry e (counted from 0) is the colour
\* of stored voxel index e + 1, modulo 256.
DecodedSize(payload) == [x |-> payload.SIZE[1], y |-> payload.SIZE[2], z |-> payload.SIZE[3]]

DecodedCount(payload) == payload.XYZI.numVoxels

DecodedRecords(payload) == payload.XYZI.records

DecodedColour(payload, storedIndex) ==
    payload.RGBA[((storedIndex + paletteLength - 1) % paletteLength) + 1]

createSchematicData(name, width, height, depth) ==
    <<"Schematic: ", name, " (", width, "x", height, IF depth # 0 THEN <<"x", depth>> ELSE <<>>, ")">>

\* The object returned at lines 234-243.
SignToVoxOutput(p, m) ==
    [schematicData |-> createSchematicData("VOX Sign", SignWidth(p), SignHeight(p), modelDepth),
     width |-> SignWidth(p), height |-> SignHeight(p), depth |-> modelDepth,
     isVox |-> TRUE,
     voxData |-> writeVox(voxObject(p, m)),
     voxSize |-> voxSize(p),
     totalVoxels |-> MapSize(m) - 1]

(***************************************************************************)
(* The inputs the caller may hand over.                                    *)
(***************************************************************************)
BaseInput ==
    [signType |-> "standard", width |-> 48, height |-> 40, frame |-> TRUE, frameWidth |-> 2,
     hangingWidth |-> 64, hangingIconPosition |-> "left", hangingSignThickness |-> 4,
     hangingSignIconOffsetX |-> 0, hangingSignTextOffsetX |-> 0,
     icon |-> <<>>, text |-> <<>>, signIconScale |-> 50,
     signIconOffsetY |-> 0, textOffsetY |-> 0, signWithIcon |-> TRUE]

\* <<icon, signWithIcon>>: icon absent, present without pixels, a bitmap,
\* a bitmap with the with-icon flag off.
StandardIcons ==
    {<<<<>>, TRUE>>, <<<<Bitmap(0, 0, "full")>>, TRUE>>, <<<<Bitmap(4, 3, "full")>>, TRUE>>,
     <<<<Bitmap(4, 3, "full")>>, FALSE>>}

HangingIcons ==
    {<<<<>>, TRUE>>, <<<<Bitmap(4, 3, "full")>>, TRUE>>, <<<<Bitmap(8, 8, "checker")>>, TRUE>>,
     <<<<Bitmap(8, 8, "checker")>>, FALSE>>}

Texts == {<<>>, <<" ", " ">>, <<" ", "h", "I">>}

DegenerateFrameWidths == {5, 9}

StandardInputs ==
    {[BaseInput EXCEPT !.signType = "standard", !.width = wh[1], !.height = wh[2],
                       !.frame = fr, !.frameWidth = fw, !.icon = ic[1], !.signWithIcon = ic[2],
                       !.text = tx, !.signIconOffsetY = oy[1], !.textOffsetY = oy[2]] :
        wh \in {<<16, 16>>, <<17, 19>>}, fr \in BOOLEAN,
        fw \in (1..MaxFrameWidth) \cup DegenerateFrameWidths,
        ic \in StandardIcons, tx \in Texts,
        oy \in {<<0, 0>>, <<-2, 3>>}}

\* Hanging signs of width 16, which the schema admits (hangingWidth is any
\* number), in every combination.
SmallHangingInputs ==
    {[BaseInput EXCEPT !.signType = "hanging", !.hangingWidth = 16,
                       !.hangingIconPosition = pos, !.hangingSignThickness = th,
                       !.icon = ic[1], !.signWithIcon = ic[2], !.text = tx,
                       !.hangingSignIconOffsetX = ox[1], !.hangingSignTextOffsetX = ox[2]] :
        pos \in {"left", "right"}, th \in 1..MaxThickness,
        ic \in HangingIcons, tx \in {<<>>, <<"h", "i">>},
        ox \in {<<0, 0>>, <<1, -30>>}}

\* Hanging signs of width 48, the smallest the caller offers, with an icon
\* and a text.
WideHangingInputs ==
    {[BaseInput EXCEPT !.signType = "hanging", !.hangingWidth = 48,
                       !.hangingIconPosition = pos, !.hangingSignThickness = th,
                       !.icon = <<Bitmap(8, 8, "checker")>>, !.text = <<"h", "i">>] :
        pos \in {"left", "right"}, th \in 1..MaxThickness}

\* A hanging sign one slice thicker than the caller's slider allows (1..16):
\* the schema only asks for an integer >= 1.
DeepThicknesses == {17}

DeepHangingInputs ==
    {[BaseInput EXCEPT !.signType = "hanging", !.hangingWidth = 16,
                       !.hangingSignThickness = th,
                       !.icon = <<>>, !.text = <<>>] : th \in DeepThicknesses}

HangingInputs == SmallHangingInputs \cup WideHangingInputs \cup DeepHangingInputs

\* Inputs the schema rejects.
InvalidInputs ==
    {[BaseInput EXCEPT !.width = 15],
     [BaseInput EXCEPT !.frameWidth = 0, !.text = <<"h", "i">>],
     [BaseInput EXCEPT !.signType = "hanging", !.hangingSignThickness = 0],
     [BaseInput EXCEPT !.signType = "hanging", !.height = 8]}

Inputs == StandardInputs \cup HangingInputs \cup InvalidInputs

\* The inputs of the repeated-call specification.
RepeatInputs ==
    {[BaseInput EXCEPT !.width = 16, !.height = 16, !.frameWidth = 1, !.text = <<"h", "i">>],
     [BaseInput EXCEPT !.signType = "hanging", !.hangingWidth = 16,
                       !.hangingSignThickness = 1, !.icon = <<Bitmap(4, 3, "full")>>],
     [BaseInput EXCEPT !.width = 15]}

RECURSIVE SeqsOfLen(_, _)
SeqsOfLen(S, n) ==
    IF n = 0 THEN {<<>>} ELSE {Append(q, e) : q \in SeqsOfLen(S, n - 1), e \in S}

(***************************************************************************)
(* Actions.                                                                *)
(***************************************************************************)
P == params[1]

Tag(phase) ==
    [phase |-> phase, awaits |-> awaits,
     outstanding |-> (Len(rasterReq) > 0 /\ Len(rasterRes) = 0)]

Grid == [m |-> voxelMap, log |-> writeLog]

Finished(input, raster, err, out) ==
    Append(history, [input |-> input, raster |-> raster, thrown |-> err, output |-> out])

\* An invocation that goes on with the map of the one before.
InvokeSharedMap ==
    /\ pc \in {"idle", "done", "threw"}
    /\ Len(pending) > 0
    /\ pending' = Tail(pending)
    /\ contentItems' = <<>>
    /\ awaits' = 0
    /\ rasterReq' = <<>>
    /\ rasterRes' = <<>>
    /\ output' = <<>>
    /\ writeLog' = <<>>
    /\ UNCHANGED voxelMap
    /\ IF SchemaAccepts(Head(pending))
        THEN /\ params' = <<Head(pending)>>
             /\ pc' = "shape"
             /\ thrown' = "none"
             /\ UNCHANGED history
        ELSE /\ params' = <<>>
             /\ pc' = "threw"
             /\ thrown' = "ValidationError"
             /\ history' = Finished(Head(pending), <<>>, "ValidationError", <<>>)

\* Lines 63-75: the call, the schema's parse, the fresh map.  A new call
\* starts with locals of its own.
Invoke ==
    /\ pc \in {"idle", "done", "threw"}
    /\ Len(pending) > 0
    /\ pending' = Tail(pending)
    /\ contentItems' = <<>>
    /\ awaits' = 0
    /\ rasterReq' = <<>>
    /\ rasterRes' = <<>>
    /\ output' = <<>>
    /\ writeLog' = <<>>
    /\ voxelMap' = EmptyMap
    /\ IF SchemaAccepts(Head(pending))
        THEN /\ params' = <<Head(pending)>>
             /\ pc' = "shape"
             /\ thrown' = "none"
             /\ UNCHANGED history
        ELSE /\ params' = <<>>
             /\ pc' = "threw"
             /\ thrown' = "ValidationError"
             /\ history' = Finished(Head(pending), <<>>, "ValidationError", <<>>)

\* Lines 77-122.
ShapePass ==
    /\ pc = "shape"
    /\ LET g == ShapeWrites(Grid, P, Tag("shape"))
       IN  voxelMap' = g.m /\ writeLog' = g.log
    /\ pc' = "layout"
    /\ UNCHANGED <<pending, params, contentItems, awaits, rasterReq, rasterRes, thrown,
                   output, history>>

\* A rasterizer call issued after the icon has been painted already.
CallRasterizerAfterPainting ==
    /\ pc = "layout"
    /\ TextIsNonBlank(P)
    /\ contentItems' = IconItems(P)
    /\ LET g == ContentWrites(Grid, P, IconItems(P), Tag("content"))
       IN  voxelMap' = g.m /\ writeLog' = g.log
    /\ rasterReq' = <<[text |-> ToUpperCase(P.text), maxWidth |-> availableWidth(P)]>>
    /\ awaits' = awaits + 1
    /\ pc' = "await"
    /\ UNCHANGED <<pending, params, rasterRes, thrown, output, history>>

\* Lines 124-140, text present: the icon item, then the call of the
\* rasterizer, on which the invocation suspends.
CallRasterizer ==
    /\ pc = "layout"
    /\ TextIsNonBlank(P)
    /\ contentItems' = IconItems(P)
    /\ rasterReq' = <<[text |-> ToUpperCase(P.text), maxWidth |-> availableWidth(P)]>>
    /\ awaits' = awaits + 1
    /\ pc' = "await"
    /\ UNCHANGED <<pending, params, voxelMap, writeLog, rasterRes, thrown, output, history>>

\* Lines 124-139, text blank: the icon item only, no call.
SkipText ==
    /\ pc = "layout"
    /\ ~TextIsNonBlank(P)
    /\ contentItems' = IconItems(P)
    /\ pc' = "place"
    /\ UNCHANGED <<pending, params, voxelMap, writeLog, awaits, rasterReq, rasterRes, thrown,
                   output, history>>

\* Lines 140-156: the rasterizer's promise resolves; Array(length) of
\* line 141 throws a RangeError when the length is negative.
RasterizerReturns ==
    /\ pc = "await"
    /\ \E res \in RasterResults(rasterReq[1]) :
        /\ rasterRes' = <<res>>
        /\ IF ArrayLengthInvalid(P, res)
            THEN /\ thrown' = "RuntimeError"
                 /\ pc' = "threw"
                 /\ history' = Finished(P, <<res>>, "RuntimeError", <<>>)
                 /\ UNCHANGED contentItems
            ELSE /\ contentItems' = Append(contentItems, TextItem(P, res))
                 /\ pc' = "place"
                 /\ UNCHANGED <<thrown, history>>
    /\ UNCHANGED <<pending, params, voxelMap, writeLog, awaits, rasterReq, output>>

\* A failure of the rasterizer that is caught, the sign going on without text.
RasterizerFailureSwallowed ==
    /\ pc = "await"
    /\ rasterRes' = <<RasterFailure>>
    /\ pc' = "place"
    /\ UNCHANGED <<pending, params, voxelMap, writeLog, contentItems, awaits, rasterReq,
                   thrown, output, history>>

\* Line 140: the rasterizer's promise rejects; nothing catches it.
RasterizerThrows ==
    /\ pc = "await"
    /\ rasterRes' = <<RasterFailure>>
    /\ thrown' = "RuntimeError"
    /\ pc' = "threw"
    /\ history' = Finished(P, <<RasterFailure>>, "RuntimeError", <<>>)
    /\ UNCHANGED <<pending, params, voxelMap, writeLog, contentItems, awaits, rasterReq, output>>

\* The anchor written before the content, not after it.
PlaceContentAfterAnchor ==
    /\ pc = "place"
    /\ LET g == ContentWrites(Write(Grid, 0, 0, 0, anchorIndex, Tag("anchor")), P,
                              contentItems, Tag("content"))
       IN  voxelMap' = g.m /\ writeLog' = g.log
    /\ pc' = "encode"
    /\ UNCHANGED <<pending, params, contentItems, awaits, rasterReq, rasterRes, thrown,
                   output, history>>

\* Lines 159-200.
PlaceContent ==
    /\ pc = "place"
    /\ LET g == ContentWrites(Grid, P, contentItems, Tag("content"))
       IN  voxelMap' = g.m /\ writeLog' = g.log
    /\ pc' = "anchor"
    /\ UNCHANGED <<pending, params, contentItems, awaits, rasterReq, rasterRes, thrown,
                   output, history>>

\* Line 203.
WriteAnchor ==
    /\ pc = "anchor"
    /\ LET g == Write(Grid, 0, 0, 0, anchorIndex, Tag("anchor"))
       IN  voxelMap' = g.m /\ writeLog' = g.log
    /\ pc' = "encode"
    /\ UNCHANGED <<pending, params, contentItems, awaits, rasterReq, rasterRes, thrown,
                   output, history>>

\* Lines 205-243.
EncodeAndReturn ==
    /\ pc = "encode"
    /\ LET out == SignToVoxOutput(P, voxelMap)
       IN  output' = <<out>> /\ history' = Finished(P, rasterRes, "none", <<out>>)
    /\ pc' = "done"
    /\ UNCHANGED <<pending, params, voxelMap, writeLog, contentItems, awaits, rasterReq,
                   rasterRes, thrown>>

Next ==
    \/ Invoke
    \/ ShapePass
    \/ CallRasterizer
    \/ SkipText
    \/ RasterizerReturns
    \/ RasterizerThrows
    \/ PlaceContent
    \/ WriteAnchor
    \/ EncodeAndReturn

InitLocals ==
    /\ pc = "idle"
    /\ params = <<>>
    /\ voxelMap = EmptyMap
    /\ writeLog = <<>>
    /\ contentItems = <<>>
    /\ awaits = 0
    /\ rasterReq = <<>>
    /\ rasterRes = <<>>
    /\ thrown = "none"
    /\ output = <<>>
    /\ history = <<>>

\* One invocation, on any of the inputs.
Init ==
    /\ pending \in {<<i>> : i \in Inputs}
    /\ InitLocals

Spec == Init /\ [][Next]_vars

\* MaxCalls invocations in a row, on the inputs of RepeatInputs.
InitRepeat ==
    /\ pending \in SeqsOfLen(RepeatInputs, MaxCalls)
    /\ InitLocals

SpecRepeat == InitRepeat /\ [][Next]_vars

(***************************************************************************)
(* addVoxel on its own: any calls, on a map that starts empty.             *)
(***************************************************************************)
WriteCoords == {0, 1} \X {0} \X {0, 15}

WriteIndices == {1, 2, 3}

\* addVoxel(px, py, pz, colorIndex)
AddVoxelCall ==
    /\ Len(writeLog) < MaxWrites
    /\ \E c \in WriteCoords, ci \in WriteIndices :
        LET g == Write(Grid, c[1], c[2], c[3], ci, Tag("call"))
        IN  voxelMap' = g.m /\ writeLog' = g.log
    /\ UNCHANGED <<pending, pc, params, contentItems, awaits, rasterReq, rasterRes, thrown,
                   output, history>>

\* addVoxel(px, py, pz): colorIndex takes its default.
AddVoxelDefaultCall ==
    /\ Len(writeLog) < MaxWrites
    /\ \E c \in WriteCoords :
        LET g == Write(Grid, c[1], c[2], c[3], defaultColorIndex, Tag("call"))
        IN  voxelMap' = g.m /\ writeLog' = g.log
    /\ UNCHANGED <<pending, pc, params, contentItems, awaits, rasterReq, rasterRes, thrown,
                   output, history>>

NextWrites == AddVoxelCall \/ AddVoxelDefaultCall

InitWrites ==
    /\ pending = <<>>
    /\ InitLocals

SpecWrites == InitWrites /\ [][NextWrites]_vars

(***************************************************************************)
(* Properties.                                                             *)
(***************************************************************************)
Returned == pc = "done"

Out == output[1]

Payload == Out.voxData

LastWrite == writeLog[Len(writeLog)]

HasPhase(phase) == \E n \in 1..Len(writeLog) : writeLog[n].phase = phase

\* The phases of the content writes: the type of the item painted.
ContentPhases == {"icon", "text"}

HasContent == \E n \in 1..Len(writeLog) : writeLog[n].phase \in ContentPhases

Origin == <<0, 0, 0>>

\* C1: once the anchor has been written (the function is encoding or has
\* returned), the last write made to the grid is the write of index 2 at
\* (0,0,0), and the grid maps (0,0,0) to 2.
AnchorIsLastWrite ==
    pc \in {"encode", "done"} =>
        /\ Len(writeLog) > 0
        /\ LastWrite.key = Origin
        /\ LastWrite.value = 2
        /\ LastWrite.phase = "anchor"
        /\ \A n \in 1..(Len(writeLog) - 1) : writeLog[n].phase # "anchor"
        /\ MapHas(voxelMap, Origin)
        /\ MapGet(voxelMap, Origin) = 2

\* An invocation that wrote a shape and content has returned.
AnchorAfterShapeAndContent == Returned /\ HasPhase("shape") /\ HasContent

DistinctCoordinates(m) == {m.keys[n] : n \in 1..Len(m.keys)}

\* C2: the returned totalVoxels is the number of distinct coordinates of
\* the final grid, less one.
CountIsDistinctCoordinatesLessOne ==
    Returned => Out.totalVoxels = Cardinality(DistinctCoordinates(voxelMap)) - 1

\* Returned after more writes than the grid has coordinates: some
\* coordinate was written more than once.
ReturnedWithRepeatedWrites == Returned /\ Len(writeLog) > Cardinality(DistinctCoordinates(voxelMap))

\* C3: the decoded SIZE is the returned voxSize (sign width, 32, sign
\* height), the decoded XYZI count is totalVoxels + 1, and there are that
\* many records, record n being entry n of the grid with y and z exchanged.
RoundTrip ==
    Returned =>
        /\ DecodedSize(Payload) = Out.voxSize
        /\ Out.voxSize = [x |-> SignWidth(P), y |-> 32, z |-> SignHeight(P)]
        /\ DecodedCount(Payload) = Out.totalVoxels + 1
        /\ Len(DecodedRecords(Payload)) = DecodedCount(Payload)
        /\ Len(DecodedRecords(Payload)) = MapSize(voxelMap)
        /\ \A n \in 1..MapSize(voxelMap) :
            DecodedRecords(Payload)[n] =
                <<MapEntries(voxelMap)[n].key[1], MapEntries(voxelMap)[n].key[3],
                  MapEntries(voxelMap)[n].key[2], MapEntries(voxelMap)[n].value>>

\* C4: a voxel stored with index 1, 2 or 3 resolves, by the container's
\* convention, to the colour of slot 1, 2 or 3 of the fixed table.
StoredIndexResolvesToItsSlot ==
    Returned =>
        /\ DecodedColour(Payload, 1) = <<10, 10, 10, 255>>
        /\ DecodedColour(Payload, 2) = <<200, 164, 100, 255>>
        /\ DecodedColour(Payload, 3) = <<220, 220, 220, 255>>

\* C5: an invocation returns a complete output, built from the grid after
\* the anchor write, or throws; a validation error comes before any write,
\* a failure of the rasterizer ends the invocation with no output.
OutputOrError ==
    /\ thrown = "ValidationError" =>
        pc = "threw" /\ Len(output) = 0 /\ Len(writeLog) = 0 /\ MapSize(voxelMap) = 0
    /\ rasterRes = <<RasterFailure>> =>
        pc = "threw" /\ thrown = "RuntimeError" /\ Len(output) = 0
    /\ pc = "threw" => Len(output) = 0 /\ thrown # "none"
    /\ Len(output) > 0 =>
        /\ pc = "done"
        /\ thrown = "none"
        /\ LastWrite.phase = "anchor"
        /\ Out = SignToVoxOutput(P, voxelMap)
        /\ Len(Payload.XYZI.records) = MapSize(voxelMap)

\* The rasterizer failed after the shape had been written.
RasterizerFailedAfterShape ==
    rasterRes = <<RasterFailure>> /\ pc = "threw" /\ HasPhase("shape")

FramedStandard == Len(params) > 0 /\ P.signType = "standard" /\ P.frame

\* C6: after the shape pass of a framed standard sign, no voxel of plane 15
\* lies at a cell that satisfies the cutout predicate of any of the 4 corners.
NoFrameVoxelInCornerCutout ==
    (pc = "layout" /\ FramedStandard) =>
        \A k \in DistinctCoordinates(voxelMap) :
            k[3] = 15 => \A n \in 1..4 : ~InCornerCutout(P, k[1], k[2], n)

\* The shape pass of a framed standard sign is over, frame voxels exist, and
\* a cell of an edge band lies in a corner's cutout.
CarvedEdgeCell ==
    /\ pc = "layout"
    /\ FramedStandard
    /\ MapSize(voxelMap) > 0
    /\ \E x \in 0..(SignWidth(P) - 1), y \in 0..(SignHeight(P) - 1), n \in 1..4 :
        (OnEdgeRows(P, y) \/ OnEdgeCols(P, x)) /\ InCornerCutout(P, x, y, n)

Placed == pc \in {"anchor", "encode", "done"}

\* The columns of the voxels painted for the items of one type.
Columns(type) == {writeLog[n].key[1] : n \in {i \in 1..Len(writeLog) : writeLog[i].phase = type}}

MaxOf(S) == CHOOSE a \in S : \A b \in S : b <= a

MinOf(S) == CHOOSE a \in S : \A b \in S : a <= b

LinesFit == \A n \in 1..Len(rasterRes[1].lines) : rasterRes[1].lines[n].width <= availableWidth(P)

\* A hanging sign with an icon item and a text item, no horizontal offsets,
\* every line within availableWidth, both items painted.
IconAndTextPlaced ==
    /\ Placed
    /\ P.signType = "hanging"
    /\ hasIcon(P)
    /\ Len(contentItems) = 2
    /\ P.hangingSignIconOffsetX = 0
    /\ P.hangingSignTextOffsetX = 0
    /\ LinesFit
    /\ Columns("icon") # {}
    /\ Columns("text") # {}

\* C7: on such a sign the icon voxels and the text voxels (plane 15, index
\* 3) lie in column ranges at least 4 empty columns apart, icon first for
\* iconPosition left, text first for iconPosition right.
IconAndTextSideBySide ==
    IconAndTextPlaced =>
        /\ \A n \in 1..Len(writeLog) :
            writeLog[n].phase \in ContentPhases =>
                writeLog[n].key[3] = 15 /\ writeLog[n].value = 3
        /\ IF P.hangingIconPosition = "left"
            THEN MaxOf(Columns("icon")) + 4 < MinOf(Columns("text"))
            ELSE MaxOf(Columns("text")) + 4 < MinOf(Columns("icon"))

\* The same for iconPosition left alone.
IconLeftOfText ==
    (IconAndTextPlaced /\ P.hangingIconPosition = "left") =>
        MaxOf(Columns("icon")) + 4 < MinOf(Columns("text"))

LogKeys == {writeLog[n].key : n \in 1..Len(writeLog)}

IsLastWriteTo(n) == \A j \in (n + 1)..Len(writeLog) : writeLog[j].key # writeLog[n].key

\* C8: after any sequence of addVoxel calls the grid holds exactly the
\* coordinates written, once each, and at each the index of the last write
\* to it.
LastWriteWins ==
    /\ DistinctCoordinates(voxelMap) = LogKeys
    /\ MapSize(voxelMap) = Cardinality(LogKeys)
    /\ \A n \in 1..Len(writeLog) :
        IsLastWriteTo(n) =>
            /\ MapHas(voxelMap, writeLog[n].key)
            /\ MapGet(voxelMap, writeLog[n].key) = writeLog[n].value

\* A coordinate has been written twice, with different indices.
OverwrittenWithOtherIndex ==
    \E i, j \in 1..Len(writeLog) :
        i < j /\ writeLog[i].key = writeLog[j].key /\ writeLog[i].value # writeLog[j].value

SameCall(a, b) == a.input = b.input /\ a.raster = b.raster

\* C9: invocations with the same input, given the same by the rasterizer,
\* end the same way: the same error, or the same output (the same records
\* in the same order, size, count and payload).
SameInputSameOutput ==
    \A i, j \in 1..Len(history) :
        SameCall(history[i], history[j]) =>
            history[i].output = history[j].output /\ history[i].thrown = history[j].thrown

\* The same call returned twice, with a call of another input in between.
RepeatedAfterAnother ==
    \E i, j \in 1..Len(history) :
        /\ i + 1 < j
        /\ SameCall(history[i], history[j])
        /\ Len(history[i].output) > 0
        /\ Len(history[i + 1].output) > 0
        /\ history[i + 1].input # history[i].input

\* C10, as stated: every invocation that returns has suspended exactly once.
SuspendsExactlyOnce == Returned => awaits = 1

ShapeTag == [phase |-> "shape", awaits |-> 0, outstanding |-> FALSE]

\* C10, amended: an invocation suspends at most once, on the call of the
\* rasterizer: once when the text is not blank, never when it is.  No write
\* is made while the call is outstanding: when it is issued the log holds
\* the whole shape pass and nothing else, and the content writes and the
\* anchor write are made after it has returned.
SuspendsOnlyOnRasterizer ==
    /\ awaits <= 1
    /\ awaits = (IF Len(rasterReq) > 0 THEN 1 ELSE 0)
    /\ Placed => awaits = (IF TextIsNonBlank(P) THEN 1 ELSE 0)
    /\ pc = "await" <=> (Len(rasterReq) > 0 /\ Len(rasterRes) = 0)
    /\ pc = "await" => writeLog = ShapeWrites([m |-> EmptyMap, log |-> <<>>], P, ShapeTag).log
    /\ \A n \in 1..Len(writeLog) :
        /\ ~writeLog[n].outstanding
        /\ writeLog[n].phase = "shape" => writeLog[n].awaits = 0
        /\ (writeLog[n].phase \in ContentPhases \cup {"anchor"} /\ TextIsNonBlank(P)) =>
            writeLog[n].awaits = 1

\* Returned after one suspension, with a shape, an icon and a text written.
ReturnedAfterOneSuspension ==
    Returned /\ awaits = 1 /\ HasPhase("shape") /\ HasPhase("icon") /\ HasPhase("text")

ShapeDone == pc = "layout"

\* The cell lies within frameWidth cells of an edge of the plane.
WithinFrameWidthOfEdge(x, y) ==
    \/ x < P.frameWidth
    \/ y < P.frameWidth
    \/ SignWidth(P) - 1 - x < P.frameWidth
    \/ SignHeight(P) - 1 - y < P.frameWidth

\* The cell lies in the outer quadrant of the square of one of the four
\* corners: nearer than cornerRadius = 2 * frameWidth to a vertical edge and
\* to a horizontal edge.
InOuterQuadrant(x, y) ==
    /\ (x < 2 * P.frameWidth \/ SignWidth(P) - 1 - x < 2 * P.frameWidth)
    /\ (y < 2 * P.frameWidth \/ SignHeight(P) - 1 - y < 2 * P.frameWidth)

IsFrameVoxel(x, y) ==
    MapHas(voxelMap, <<x, y, 15>>) /\ MapGet(voxelMap, <<x, y, 15>>) = 2

\* C11: after the shape pass of a framed standard sign, corner carving has
\* removed cells of the outer quadrants only: every cell within frameWidth
\* of an edge and outside the four outer quadrants is a frame voxel (plane
\* 15, index 2).
CarvingOnlyInOuterQuadrants ==
    (ShapeDone /\ FramedStandard) =>
        \A x \in 0..(SignWidth(P) - 1), y \in 0..(SignHeight(P) - 1) :
            (WithinFrameWidthOfEdge(x, y) /\ ~InOuterQuadrant(x, y)) => IsFrameVoxel(x, y)

Hanging == Len(params) > 0 /\ P.signType = "hanging"

\* The rounded rectangle of the hangingWidth x 16 plane: the cell is in the
\* band of columns or the band of rows between the corners, or the centre of
\* the cell, (x + 1/2, y + 1/2), is within 4 of one of the 4 corner centres.
\* (x + 1/2 - c)^2 + (y + 1/2 - d)^2 <= 16, multiplied out and times 4.
InBackplateMask(x, y) ==
    /\ x \in 0..(P.hangingWidth - 1)
    /\ y \in 0..15
    /\ \/ x \in 4..(P.hangingWidth - 5)
       \/ y \in 4..11
       \/ \E c \in {4, P.hangingWidth - 4}, d \in {4, 12} :
            4 * ((x - c) * (x - c + 1) + (y - d) * (y - d + 1)) + 2 <= 64

HoldsIndexOne(k) == MapHas(voxelMap, k) /\ MapGet(voxelMap, k) = 1

\* C12: the final grid of a hanging sign of thickness t holds index 1 exactly
\* at the (x,y,z) with 16 <= z < 16 + t and (x,y) in the rounded-rectangle
\* mask, the same mask in every slice; the content writes and the anchor
\* write are made in front of the backplate and replace none of its voxels.
BackplateIsTheMask ==
    Hanging =>
        /\ pc \in {"encode", "done"} =>
            /\ \A x \in (-1)..P.hangingWidth, y \in (-1)..16,
                  z \in 15..(16 + P.hangingSignThickness) :
                HoldsIndexOne(<<x, y, z>>) <=>
                    (z >= 16 /\ z < 16 + P.hangingSignThickness /\ InBackplateMask(x, y))
            /\ \A k \in DistinctCoordinates(voxelMap) :
                HoldsIndexOne(k) =>
                    (k[3] >= 16 /\ k[3] < 16 + P.hangingSignThickness /\ InBackplateMask(k[1], k[2]))
        /\ \A n \in 1..Len(writeLog) :
            IF writeLog[n].phase = "shape"
                THEN writeLog[n].key[3] >= 16 /\ writeLog[n].value = 1
                ELSE writeLog[n].key[3] < 16 /\ writeLog[n].value # 1

\* A hanging sign of two slices or more has returned with an icon and a text
\* painted; its mask leaves out the corner cell (0,0) and holds (1,1).
BackplateUnderContent ==
    /\ Hanging
    /\ Returned
    /\ P.hangingSignThickness >= 2
    /\ HasPhase("icon")
    /\ HasPhase("text")
    /\ ~InBackplateMask(0, 0)
    /\ InBackplateMask(1, 1)
    /\ HoldsIndexOne(<<1, 1, 17>>)

\* The coordinate, in the container's axes, lies inside the extents.
InsideExtents(x, y, z, size) ==
    /\ 0 <= x /\ x < size.x
    /\ 0 <= y /\ y < size.y
    /\ 0 <= z /\ z < size.z

\* C13: every record of the payload lies inside the SIZE written with it,
\* 0 <= x < sign width, 0 <= y < 32, 0 <= z < sign height, and is the grid
\* entry itself: no component was wrapped to fit its 8-bit field.
RecordsInsideSize ==
    Returned =>
        /\ DecodedSize(Payload) = [x |-> SignWidth(P), y |-> 32, z |-> SignHeight(P)]
        /\ \A n \in 1..Len(DecodedRecords(Payload)) :
            InsideExtents(DecodedRecords(Payload)[n][1], DecodedRecords(Payload)[n][2],
                          DecodedRecords(Payload)[n][3], DecodedSize(Payload))
        /\ \A k \in DistinctCoordinates(voxelMap) :
            InsideExtents(k[1], k[3], k[2], DecodedSize(Payload))

\* Every offset is zero, the icon (if any) and every rasterized line (if
\* any) are no wider than availableWidth, and the content has been painted.
CentredContentPlaced ==
    /\ Placed
    /\ P.signIconOffsetY = 0 /\ P.textOffsetY = 0
    /\ P.hangingSignIconOffsetX = 0 /\ P.hangingSignTextOffsetX = 0
    /\ hasIcon(P) => P.icon[1].width <= availableWidth(P)
    /\ Len(rasterRes) > 0 => LinesFit
    /\ HasContent

ContentColumns == Columns("icon") \cup Columns("text")

\* C14: with zero offsets and an icon and lines no wider than
\* availableWidth, every content voxel has pad <= x < signWidth - pad.
ContentWithinPad ==
    CentredContentPlaced =>
        \A x \in ContentColumns : pad(P) <= x /\ x < SignWidth(P) - pad(P)

\* The same for a sign with one content item.
OneItemWithinPad ==
    (CentredContentPlaced /\ Len(contentItems) = 1) =>
        \A x \in ContentColumns : pad(P) <= x /\ x < SignWidth(P) - pad(P)

====
